---- MODULE Spec2Model ----
(***************************************************************************)
(* The indexed fragment database of src/src/database_opt.rs: construction  *)
(* of the bucketed, doubly sorted fragment index (IndexedDatabase::new),   *)
(* the range query over it (IndexedQuery::page_search) and the             *)
(* tolerance-bounded binary search both rely on (binary_search_slice).     *)
(*                                                                         *)
(* Masses and m/z values are f32 in the source.  Only their order is used  *)
(* (total_cmp, >=, <=), and the domain holds no NaN, so they are modelled  *)
(* as integers.  Rust indices are 0-based and are kept 0-based here; the   *)
(* element at Rust index i of a sequence s is s[i + 1].                    *)
(***************************************************************************)
EXTENDS Integers, Sequences, FiniteSets, TLC

\* ------------------------------------------------------------------ bounds
\* At most this many candidate peptides survive digestion.
MaxPeptides == 3
\* Neutral peptide masses are drawn from 1..MaxMass.
MaxMass == 2
\* Ion m/z values are drawn from 0..MaxMz; 0 lies below fragment_min_mz.
MaxMz == 2
\* An ion series of a drawn peptide holds at most this many ions.
MaxSeriesLen == 1
\* Tolerances are windows (center - a, center + b) with a, b in 0..MaxTol.
MaxTol == 1
\* Longest key sequence given to binary_search_slice on its own.
MaxLen == 4
\* Peptides in the databases on which repeated queries are compared.
MaxPeptidesRepeat == 2
\* The source's bucket size is 8196; the model keeps the bucketing
\* arithmetic and scales the size down so that several buckets arise.
FRAGMENT_BUCKET_SIZE == 2
\* One proton mass, in the model's integer mass unit.
PROTON == 1

Kinds == <<"B", "Y">>
Charges == <<1, 2, 3>>

VARIABLES
  pc,              \* phase of construction / "ready" once the database is built
  std_impl,        \* which std implementation of slice::binary_search_by the build links
  fragment_min_mz, \* IndexedDatabase.fragment_min_mz
  fragment_max_mz, \* IndexedDatabase.fragment_max_mz
  peptides,        \* target_decoys, later IndexedDatabase.peptides
  fragments,       \* IndexedDatabase.fragments
  min_value,       \* IndexedDatabase.min_value
  chunk_pc,        \* per bucket worker: "start", "captured", "sorted"
  chunk_min,       \* per bucket worker: the local `min`
  query,           \* the IndexedQuery in use, or NoQuery
  call,            \* argument of the last page_search, or NoCall
  out,             \* what the last page_search computed
  memo,            \* the first page_search of the current IndexedQuery (argument and result)
  bs_in,           \* a stand-alone binary_search_slice call: its input
  bs_out           \* ... and its output

vars == <<pc, std_impl, fragment_min_mz, fragment_max_mz, peptides, fragments,
          min_value, chunk_pc, chunk_min, query, call, out, memo, bs_in, bs_out>>

dbvars == <<fragment_min_mz, fragment_max_mz, peptides, fragments, min_value>>

\* ------------------------------------------------------------- arithmetic
Min(a, b) == IF a <= b THEN a ELSE b

\* usize::saturating_sub
saturating_sub(a, b) == IF a >= b THEN a - b ELSE 0

\* slice[from..to] with 0-based, end-exclusive Rust indices (from <= to <= len).
Slice(s, from, to) == SubSeq(s, from + 1, to)

\* The keys of a slice under the projection `key` (a field name).
Keys(s, key) == [i \in 1..Len(s) |-> s[i][key]]

\* Vec::sort_by(|a, b| a.key.total_cmp(&b.key)): a stable sort.
StableSortBy(s, key) ==
  LET n == Len(s)
      rank(i) == Cardinality({j \in 1..n : \/ s[j][key] < s[i][key]
                                           \/ (s[j][key] = s[i][key] /\ j < i)}) + 1
  IN  [p \in 1..n |-> s[CHOOSE i \in 1..n : rank(i) = p]]

IsSortedBy(s, key) == \A i \in 1..(Len(s) - 1) : s[i][key] <= s[i + 1][key]

IsSorted(keys) == \A i \in 1..(Len(keys) - 1) : keys[i] <= keys[i + 1]

\* ------------------------------------------------ slice::binary_search_by
\* std documents only that a match is reported as Ok(any matching index) and
\* a miss as Err(insertion point), and that the result on an unsorted slice
\* is unspecified.  Both implementations std has shipped are modelled; the
\* build links exactly one of them (std_impl).  Ok(idx) | Err(idx) is
\* flattened to idx, as binary_search_slice does.

\* Rust 1.52 - 1.81: bisect [left, right), return at the first probe that compares Equal.
RECURSIVE bisect_early(_, _, _, _)
bisect_early(keys, target, left, right) ==
  IF left >= right THEN left
  ELSE LET mid == left + ((right - left) \div 2)
       IN  IF keys[mid + 1] < target THEN bisect_early(keys, target, mid + 1, right)
           ELSE IF keys[mid + 1] > target THEN bisect_early(keys, target, left, mid)
           ELSE mid

\* Rust <= 1.51 and >= 1.82: halve `size` keeping `base` at a key <= target, compare once at the end.
RECURSIVE bisect_base(_, _, _, _)
bisect_base(keys, target, base, size) ==
  IF size = 0 THEN 0
  ELSE IF size > 1
       THEN LET half == size \div 2
                mid  == base + half
            IN  bisect_base(keys, target,
                            IF keys[mid + 1] > target THEN base ELSE mid,
                            size - half)
       ELSE IF keys[base + 1] = target THEN base
            ELSE base + (IF keys[base + 1] < target THEN 1 ELSE 0)

binary_search_by(keys, target) ==
  IF std_impl = "early_return"
  THEN bisect_early(keys, target, 0, Len(keys))
  ELSE bisect_base(keys, target, 0, Len(keys))

\* ----------------------------------------------------- binary_search_slice
\* while idx > 0 && key(&slice[idx]) >= left { idx -= 1 }
RECURSIVE walk_back(_, _, _)
walk_back(keys, idx, left) ==
  IF idx > 0 /\ keys[idx + 1] >= left THEN walk_back(keys, idx - 1, left) ELSE idx

\* The left index without the step back and the walk back.
left_idx_unwalked(keys, left) == binary_search_by(keys, left)

left_idx_of(keys, left) ==
  walk_back(keys, saturating_sub(binary_search_by(keys, left), 1), left)

right_idx_of(keys, right) ==
  Min(binary_search_by(keys, right), saturating_sub(Len(keys), 1))

binary_search_slice(keys, left, right) ==
  <<left_idx_of(keys, left), right_idx_of(keys, right)>>

\* --------------------------------------------- stand-alone binary search
RECURSIVE SortedSeqs(_, _)
\* All ascending key sequences of length n over lo..MaxMass + 1.
SortedSeqs(n, lo) ==
  IF n = 0 THEN {<<>>}
  ELSE UNION {{<<k>> \o t : t \in SortedSeqs(n - 1, k)} : k \in lo..(MaxMass + 1)}

SearchInputs ==
  {[keys |-> ks, left |-> l, right |-> r] :
     ks \in UNION {SortedSeqs(n, 1) : n \in 0..MaxLen},
     l \in 0..(MaxMass + 2), r \in 0..(MaxMass + 2)}

\* lo <= hi is the caller's obligation (lo > hi is caller error).
OrderedSearchInputs == {x \in SearchInputs : x.left <= x.right}

NoSearch == [keys |-> <<>>, left |-> 0, right |-> -1]
NoOut == <<-1, -1>>

\* ------------------------------------------------- construction: inputs
RECURSIVE SeqsUpTo(_, _)
\* All sequences over S of length at most n.
SeqsUpTo(n, S) ==
  IF n = 0 THEN {<<>>}
  ELSE LET shorter == SeqsUpTo(n - 1, S)
       IN  shorter \cup {<<x>> \o t : x \in S, t \in {u \in shorter : Len(u) = n - 1}}

SeriesKeys == {<<Kinds[k], Charges[c]>> : k \in 1..Len(Kinds), c \in 1..Len(Charges)}

\* A candidate peptide as the collaborators hand it over: its neutral mass
\* (TargetDecoy::neutral) and, per ion kind and charge, the m/z values its
\* ion series yields.  The drawn peptides carry singly charged ions only.
PeptideInputs ==
  {[neutral |-> m,
    series  |-> [kc \in SeriesKeys |->
                   IF kc[2] # 1 THEN <<>> ELSE IF kc[1] = "B" THEN b ELSE y]] :
     m \in 1..MaxMass,
     b \in SeqsUpTo(MaxSeriesLen, 0..MaxMz),
     y \in SeqsUpTo(MaxSeriesLen, 0..MaxMz)}

IsInjective(s) == \A i, j \in 1..Len(s) : s[i] = s[j] => i = j

\* target_decoys as collected from the HashSet of digests: distinct
\* peptides in whatever order the parallel collect produced.
CollectedPeptides == {s \in SeqsUpTo(MaxPeptides, PeptideInputs) : IsInjective(s)}

\* The peptides all of whose ions lie in lo..hi.  The generation filter drops
\* every other ion before it reaches the database, so these peptides yield
\* every fragment collection the drawn peptides can yield.
InRangePeptides(lo, hi) ==
  {p \in PeptideInputs :
     \A kc \in SeriesKeys : \A i \in 1..Len(p.series[kc]) :
        lo <= p.series[kc][i] /\ p.series[kc][i] <= hi}

CollectedInRange(n, lo, hi) ==
  {s \in SeqsUpTo(n, InRangePeptides(lo, hi)) : IsInjective(s)}

\* IonSeries::new(peptide, kind, charge): the ions of one series, in order.
IonSeries(peptide, kind, charge) ==
  [i \in 1..Len(peptide.series[<<kind, charge>>]) |->
     [mz |-> peptide.series[<<kind, charge>>][i], kind |-> kind, charge |-> charge]]

\* ------------------------------------------ construction: IndexedDatabase::new
RECURSIVE Flatten(_)
Flatten(ss) == IF ss = <<>> THEN <<>> ELSE Head(ss) \o Flatten(Tail(ss))

Theoretical(idx, peptide, ion) ==
  [peptide_index |-> idx, precursor_mz |-> peptide.neutral,
   fragment_mz |-> ion.mz, kind |-> ion.kind, charge |-> ion.charge]

in_fragment_range(frag, lo, hi) == frag.fragment_mz >= lo /\ frag.fragment_mz <= hi

\* fragments.extend(IonSeries::new(..).map(..).filter(..)) for one (charge, kind).
series_fragments(idx, peptide, kind, charge, lo, hi) ==
  LET ions == IonSeries(peptide, kind, charge)
      made == [i \in 1..Len(ions) |-> Theoretical(idx, peptide, ions[i])]
      Keep(frag) == in_fragment_range(frag, lo, hi)
  IN  SelectSeq(made, Keep)

\* for (idx, peptide) .. for charge in 1..4 .. for kind in [B, Y]
generate_fragments(tds, lo, hi) ==
  Flatten([i \in 1..Len(tds) |->
    Flatten([c \in 1..Len(Charges) |->
      Flatten([k \in 1..Len(Kinds) |->
        series_fragments(i - 1, tds[i], Kinds[k], Charges[c], lo, hi)])])])

\* par_chunks_mut(FRAGMENT_BUCKET_SIZE): the number of chunks of n records.
num_chunks(n) == (n + FRAGMENT_BUCKET_SIZE - 1) \div FRAGMENT_BUCKET_SIZE

chunk_start(b) == b * FRAGMENT_BUCKET_SIZE
chunk_end(b, n) == Min((b + 1) * FRAGMENT_BUCKET_SIZE, n)

\* Chunk b (0-based) of frs.
chunk(frs, b) == Slice(frs, chunk_start(b), chunk_end(b, Len(frs)))

\* The minimum read from the chunk's last record instead of its first.
chunk_last_mz(frs, b) == frs[chunk_end(b, Len(frs))].fragment_mz

\* let min = chunk[0].fragment_mz;
chunk_first_mz(frs, b) == frs[chunk_start(b) + 1].fragment_mz

\* The chunk left in fragment m/z order.
chunk_sort_skipped(frs, b) == frs

\* The resort reaching one record into the next chunk.
chunk_sort_overrun(frs, b) ==
  LET from   == chunk_start(b)
      to     == Min(chunk_end(b, Len(frs)) + 1, Len(frs))
      sorted == StableSortBy(Slice(frs, from, to), "precursor_mz")
  IN  [i \in 1..Len(frs) |-> IF from < i /\ i <= to THEN sorted[i - from] ELSE frs[i]]

\* chunk.sort_by(precursor_mz) in place: frs with chunk b sorted, the rest as it was.
chunk_sort(frs, b) ==
  LET sorted == StableSortBy(chunk(frs, b), "precursor_mz")
  IN  [i \in 1..Len(frs) |->
         IF chunk_start(b) < i /\ i <= chunk_end(b, Len(frs))
         THEN sorted[i - chunk_start(b)] ELSE frs[i]]

RECURSIVE sort_chunks(_, _)
\* Chunks b, b + 1, .. sorted one after the other.
sort_chunks(frs, b) ==
  IF b >= num_chunks(Len(frs)) THEN frs ELSE sort_chunks(chunk_sort(frs, b), b + 1)

\* The fragments as they are right after the global sort by fragment m/z.
globally_sorted(tds, lo, hi) == StableSortBy(generate_fragments(tds, lo, hi), "fragment_mz")

\* ------------------------------------------------------------------ states
StdImpls == {"early_return", "last_le"}

NoQuery == [precursor_mz |-> -1, precursor_tol |-> <<0, 0>>, fragment_tol |-> <<0, 0>>]
NoCall == -1
NoResult == [left_bucket |-> 0, right_bucket |-> 0, left_idx |-> 0, right_idx |-> 0,
             slice_len |-> 0, inner_left |-> 0, inner_right |-> 0,
             panicked |-> FALSE, result |-> <<>>]
NoMemo == [call |-> NoCall, result |-> <<>>, others |-> FALSE]

\* What no construction step and no query touches.
Idle ==
  /\ query = NoQuery /\ call = NoCall /\ out = NoResult /\ memo = NoMemo
  /\ bs_in = NoSearch /\ bs_out = NoOut

\* --------------------------------------------- construction, step by step
\* IndexedDatabase::new from the point where target_decoys is collected.
InitBuild ==
  /\ pc = "collected"
  /\ std_impl \in StdImpls
  /\ fragment_min_mz = 1
  /\ fragment_max_mz = MaxMz
  /\ peptides \in CollectedPeptides
  /\ fragments = <<>>
  /\ min_value = <<>>
  /\ chunk_pc = <<>>
  /\ chunk_min = <<>>
  /\ Idle

\* target_decoys.sort_by(neutral)
SortPeptides ==
  /\ pc = "collected"
  /\ peptides' = StableSortBy(peptides, "neutral")
  /\ pc' = "peptides_sorted"
  /\ UNCHANGED <<std_impl, fragment_min_mz, fragment_max_mz, fragments, min_value,
                 chunk_pc, chunk_min, query, call, out, memo, bs_in, bs_out>>

\* the nested generation loops
GenerateFragments ==
  /\ pc = "peptides_sorted"
  /\ fragments' = generate_fragments(peptides, fragment_min_mz, fragment_max_mz)
  /\ pc' = "generated"
  /\ UNCHANGED <<std_impl, fragment_min_mz, fragment_max_mz, peptides, min_value,
                 chunk_pc, chunk_min, query, call, out, memo, bs_in, bs_out>>

\* fragments.sort_by(fragment_mz), then the chunks are handed to the workers
SortFragments ==
  /\ pc = "generated"
  /\ fragments' = StableSortBy(fragments, "fragment_mz")
  /\ chunk_pc' = [b \in 1..num_chunks(Len(fragments)) |-> "start"]
  /\ chunk_min' = [b \in 1..num_chunks(Len(fragments)) |-> 0]
  /\ pc' = "chunking"
  /\ UNCHANGED <<std_impl, fragment_min_mz, fragment_max_mz, peptides, min_value,
                 query, call, out, memo, bs_in, bs_out>>

\* worker of chunk b (0-based): let min = chunk[0].fragment_mz
ChunkCaptureMin(b) ==
  /\ pc = "chunking"
  /\ chunk_pc[b + 1] = "start"
  /\ chunk_min' = [chunk_min EXCEPT ![b + 1] = chunk_first_mz(fragments, b)]
  /\ chunk_pc' = [chunk_pc EXCEPT ![b + 1] = "captured"]
  /\ UNCHANGED <<pc, std_impl, fragment_min_mz, fragment_max_mz, peptides, fragments,
                 min_value, query, call, out, memo, bs_in, bs_out>>

\* worker of chunk b: chunk.sort_by(precursor_mz); min
ChunkSort(b) ==
  /\ pc = "chunking"
  /\ chunk_pc[b + 1] = "captured"
  /\ fragments' = chunk_sort(fragments, b)
  /\ chunk_pc' = [chunk_pc EXCEPT ![b + 1] = "sorted"]
  /\ UNCHANGED <<pc, std_impl, fragment_min_mz, fragment_max_mz, peptides, min_value,
                 chunk_min, query, call, out, memo, bs_in, bs_out>>

\* .collect::<Vec<_>>() of the workers' results, in chunk order; Ok(Self { .. })
CollectMinValue ==
  /\ pc = "chunking"
  /\ \A b \in 1..Len(chunk_pc) : chunk_pc[b] = "sorted"
  /\ min_value' = chunk_min
  /\ pc' = "ready"
  /\ UNCHANGED <<std_impl, fragment_min_mz, fragment_max_mz, peptides, fragments,
                 chunk_pc, chunk_min, query, call, out, memo, bs_in, bs_out>>

NextBuild ==
  \/ SortPeptides
  \/ GenerateFragments
  \/ SortFragments
  \/ \E b \in 0..(Len(chunk_pc) - 1) : ChunkCaptureMin(b)
  \/ \E b \in 0..(Len(chunk_pc) - 1) : ChunkSort(b)
  \/ CollectMinValue

SpecBuild == InitBuild /\ [][NextBuild]_vars

\* ------------------------------------------------- query: IndexedQuery
\* Tolerance::bounds: the inclusive window around a center.  A tolerance is
\* <<a, b>>: a below the center, b above it.
bounds(tol, center) == <<center - tol[1], center + tol[2]>>

\* The drawn tolerances are symmetric: t below and t above.
Tolerances == {<<t, t>> : t \in 0..MaxTol}

\* The final filter without its fragment m/z test.
in_precursor_window_only(frag, left, right, fragment_lo, fragment_hi) ==
  /\ frag.precursor_mz >= left
  /\ frag.precursor_mz <= right

\* The final filter of page_search.
in_windows(frag, left, right, fragment_lo, fragment_hi) ==
  /\ frag.precursor_mz >= left
  /\ frag.precursor_mz <= right
  /\ frag.fragment_mz >= fragment_lo
  /\ frag.fragment_mz <= fragment_hi

\* let left_idx = left_idx * FRAGMENT_BUCKET_SIZE;
bucket_left_idx(left_bucket) == left_bucket * FRAGMENT_BUCKET_SIZE

\* let right_idx = (right_idx * FRAGMENT_BUCKET_SIZE).min(self.db.fragments.len());
bucket_right_idx(right_bucket, len) == Min(right_bucket * FRAGMENT_BUCKET_SIZE, len)

\* IndexedQuery::page_search(fragment_mz) of IndexedQuery q over the database
\* (frs, mins): every local of the body, whether an index panicked, and the
\* records the returned iterator yields, in order.
page_search(q, frs, mins, fragment_mz) ==
  LET fb          == bounds(q.fragment_tol, fragment_mz)
      fragment_lo == fb[1]
      fragment_hi == fb[2]
      buckets     == binary_search_slice(mins, fragment_lo, fragment_hi)
      left_idx    == bucket_left_idx(buckets[1])
      right_idx   == bucket_right_idx(buckets[2], Len(frs))
      pb          == bounds(q.precursor_tol, q.precursor_mz - PROTON)
      left        == pb[1]
      right       == pb[2]
      \* &self.db.fragments[left_idx..right_idx] panics unless left_idx <= right_idx <= len
      slice_ok    == left_idx <= right_idx /\ right_idx <= Len(frs)
      slice       == IF slice_ok THEN Slice(frs, left_idx, right_idx) ELSE <<>>
      inner       == binary_search_slice(Keys(slice, "precursor_mz"), left, right)
      \* slice[inner_left..inner_right] panics likewise
      inner_ok    == inner[1] <= inner[2] /\ inner[2] <= Len(slice)
      Keep(frag)  == in_windows(frag, left, right, fragment_lo, fragment_hi)
  IN  [left_bucket |-> buckets[1], right_bucket |-> buckets[2],
       left_idx |-> left_idx, right_idx |-> right_idx,
       slice_len |-> Len(slice),
       inner_left |-> IF slice_ok THEN inner[1] ELSE 0,
       inner_right |-> IF slice_ok THEN inner[2] ELSE 0,
       panicked |-> ~(slice_ok /\ inner_ok),
       result |-> IF slice_ok /\ inner_ok
                  THEN SelectSeq(Slice(slice, inner[1], inner[2]), Keep)
                  ELSE <<>>]

\* A page_search that drains the records it returns out of the collection.
fragments_drained(frs, res) ==
  LET Kept(frag) == \A j \in 1..Len(res.result) : res.result[j] # frag
  IN  SelectSeq(frs, Kept)

\* What a page_search leaves of the fragment collection: it borrows the
\* database immutably (&self, &self.db.fragments[..]) and writes nothing.
fragments_after_search(frs, res) == frs

\* The database IndexedDatabase::new returns for the collected peptides tds.
built_peptides(tds) == StableSortBy(tds, "neutral")

built_fragments(tds, lo, hi) == sort_chunks(globally_sorted(built_peptides(tds), lo, hi), 0)

built_min_value(tds, lo, hi) ==
  LET sorted == globally_sorted(built_peptides(tds), lo, hi)
  IN  [b \in 1..num_chunks(Len(sorted)) |-> chunk_first_mz(sorted, b - 1)]

\* Queries start from a constructed database of at most n peptides.
InitBuilt(n) ==
  /\ pc = "ready"
  /\ std_impl \in StdImpls
  /\ fragment_min_mz = 1
  /\ fragment_max_mz = MaxMz
  /\ \E tds \in CollectedInRange(n, fragment_min_mz, fragment_max_mz) :
       /\ peptides = built_peptides(tds)
       /\ fragments = built_fragments(tds, fragment_min_mz, fragment_max_mz)
       /\ min_value = built_min_value(tds, fragment_min_mz, fragment_max_mz)
       /\ chunk_pc = [b \in 1..Len(min_value) |-> "sorted"]
       /\ chunk_min = min_value
  /\ Idle

Init == InitBuilt(MaxPeptides)

\* IndexedDatabase::query(spectrum, precursor_tol, fragment_tol)
Query(precursor_mz, precursor_tol, fragment_tol) ==
  /\ pc = "ready"
  /\ query = NoQuery
  /\ query' = [precursor_mz |-> precursor_mz, precursor_tol |-> precursor_tol,
               fragment_tol |-> fragment_tol]
  /\ call' = NoCall
  /\ out' = NoResult
  /\ UNCHANGED <<pc, std_impl, fragment_min_mz, fragment_max_mz, peptides, fragments,
                 min_value, chunk_pc, chunk_min, memo, bs_in, bs_out>>

\* IndexedQuery::page_search(fragment_mz), the iterator consumed
PageSearch(fragment_mz) ==
  /\ pc = "ready"
  /\ query # NoQuery
  /\ call' = fragment_mz
  /\ out' = page_search(query, fragments, min_value, fragment_mz)
  /\ fragments' = fragments_after_search(fragments, out')
  /\ UNCHANGED <<pc, std_impl, fragment_min_mz, fragment_max_mz, peptides,
                 min_value, chunk_pc, chunk_min, query, memo, bs_in, bs_out>>

PrecursorMzs == PROTON..(MaxMass + 1 + PROTON)
FragmentMzs == 0..(MaxMz + 1)

Next ==
  \/ \E p \in PrecursorMzs, pt \in Tolerances, ft \in Tolerances : Query(p, pt, ft)
  \/ \E f \in FragmentMzs : PageSearch(f)

Spec == Init /\ [][Next]_vars

\* ------------------------------------------------------ repeated queries
\* page_search, with the first call of the IndexedQuery remembered.
RepeatedPageSearch(fragment_mz) ==
  /\ pc = "ready"
  /\ query # NoQuery
  /\ call' = fragment_mz
  /\ out' = page_search(query, fragments, min_value, fragment_mz)
  /\ fragments' = fragments_after_search(fragments, out')
  /\ memo' = IF memo = NoMemo
             THEN [call |-> fragment_mz, result |-> out'.result, others |-> FALSE]
             ELSE [memo EXCEPT !.others = memo.others \/ fragment_mz # memo.call]
  /\ UNCHANGED <<pc, std_impl, fragment_min_mz, fragment_max_mz, peptides,
                 min_value, chunk_pc, chunk_min, query, bs_in, bs_out>>

InitRepeat == InitBuilt(MaxPeptidesRepeat)

NextRepeat ==
  \/ \E p \in PrecursorMzs, pt \in Tolerances, ft \in Tolerances : Query(p, pt, ft)
  \/ \E f \in FragmentMzs : RepeatedPageSearch(f)

SpecRepeat == InitRepeat /\ [][NextRepeat]_vars

\* ------------------------------------- binary_search_slice on its own
InitSearch ==
  /\ pc = "search"
  /\ std_impl \in StdImpls
  /\ fragment_min_mz = 1
  /\ fragment_max_mz = MaxMz
  /\ peptides = <<>>
  /\ fragments = <<>>
  /\ min_value = <<>>
  /\ chunk_pc = <<>>
  /\ chunk_min = <<>>
  /\ query = NoQuery /\ call = NoCall /\ out = NoResult /\ memo = NoMemo
  /\ bs_in \in OrderedSearchInputs
  /\ bs_out = NoOut

BinarySearchSlice ==
  /\ pc = "search"
  /\ bs_out = NoOut
  /\ bs_out' = binary_search_slice(bs_in.keys, bs_in.left, bs_in.right)
  /\ UNCHANGED <<pc, std_impl, fragment_min_mz, fragment_max_mz, peptides, fragments,
                 min_value, chunk_pc, chunk_min, query, call, out, memo, bs_in>>

NextSearch == BinarySearchSlice

SpecSearch == InitSearch /\ [][NextSearch]_vars

\* ================================================================== claims
\* The windows of the last page_search, recomputed from its arguments.
FragmentLo == call - query.fragment_tol[1]
FragmentHi == call + query.fragment_tol[2]
PrecursorLo == (query.precursor_mz - PROTON) - query.precursor_tol[1]
PrecursorHi == (query.precursor_mz - PROTON) + query.precursor_tol[2]

Called == pc = "ready" /\ query # NoQuery /\ call # NoCall

InBothWindows(frag) ==
  /\ PrecursorLo <= frag.precursor_mz /\ frag.precursor_mz <= PrecursorHi
  /\ FragmentLo <= frag.fragment_mz /\ frag.fragment_mz <= FragmentHi

Returned(frag) == \E j \in 1..Len(out.result) : out.result[j] = frag

MinOf(S) == CHOOSE x \in S : \A y \in S : x <= y

Count(s, x) == Cardinality({i \in 1..Len(s) : s[i] = x})

SameRecords(s, t) ==
  /\ Len(s) = Len(t)
  /\ \A i \in 1..Len(s) : Count(s, s[i]) = Count(t, s[i])

\* C1: query completeness: after every page_search, every stored fragment
\* record whose fragment m/z and precursor mass lie in the two windows is
\* among the returned records.
C1_Completeness ==
  Called => \A i \in 1..Len(fragments) : InBothWindows(fragments[i]) => Returned(fragments[i])

\* C2: end-to-end hit: on a database of one peptide whose fragments fill less
\* than one bucket, a page_search at the m/z of a stored fragment, with the
\* peptide's neutral mass inside the precursor window, returns that record.
C2_SinglePeptideHit ==
  (/\ Called
   /\ Len(peptides) = 1
   /\ Len(fragments) >= 1
   /\ Len(fragments) < FRAGMENT_BUCKET_SIZE
   /\ PrecursorLo <= peptides[1].neutral /\ peptides[1].neutral <= PrecursorHi)
  => \A i \in 1..Len(fragments) : fragments[i].fragment_mz = call => Returned(fragments[i])

\* C3: binary-search containment: on an ascending key sequence and lo <= hi,
\* every index whose key lies in [lo, hi] is within [left_idx, right_idx].
C3_Containment ==
  bs_out # NoOut =>
    \A i \in 0..(Len(bs_in.keys) - 1) :
      (bs_in.left <= bs_in.keys[i + 1] /\ bs_in.keys[i + 1] <= bs_in.right)
        => (bs_out[1] <= i /\ i <= bs_out[2])

\* C4: query soundness: every returned record lies in both windows and is a
\* record of the fragment collection.
C4_Soundness ==
  Called =>
    \A j \in 1..Len(out.result) :
      /\ InBothWindows(out.result[j])
      /\ \E i \in 1..Len(fragments) : fragments[i] = out.result[j]

\* A page_search returned something and its final filter dropped a record of
\* the narrowed range.
C4_Witness ==
  /\ Called
  /\ Len(out.result) >= 1
  /\ Len(out.result) < out.inner_right - out.inner_left

\* C5: query totality: no index of a page_search leaves its range and the
\* call does not panic; on the empty database nothing is returned.
C5_Totality ==
  Called =>
    /\ ~out.panicked
    /\ out.left_idx <= out.right_idx /\ out.right_idx <= Len(fragments)
    /\ out.slice_len = out.right_idx - out.left_idx
    /\ out.inner_left <= out.inner_right /\ out.inner_right <= out.slice_len
    /\ (fragments = <<>> => out.result = <<>>)

\* A page_search whose element sub-range spans several buckets and is not
\* sorted by precursor mass.
C5_Witness ==
  /\ Called
  /\ out.slice_len > FRAGMENT_BUCKET_SIZE
  /\ ~IsSortedBy(Slice(fragments, out.left_idx, out.right_idx), "precursor_mz")

\* C6: sort invariant: in a constructed database the peptides are
\* non-decreasing by neutral mass and every bucket is non-decreasing by
\* precursor mass.
C6_SortInvariant ==
  pc = "ready" =>
    /\ IsSortedBy(peptides, "neutral")
    /\ \A i \in 1..(Len(fragments) - 1) :
         (i % FRAGMENT_BUCKET_SIZE # 0)
           => fragments[i].precursor_mz <= fragments[i + 1].precursor_mz

\* A constructed database of several buckets whose fragment collection as a
\* whole is not sorted by precursor mass.
C6_Witness ==
  /\ pc = "ready"
  /\ Len(peptides) >= 2
  /\ Len(fragments) > FRAGMENT_BUCKET_SIZE
  /\ ~IsSortedBy(fragments, "precursor_mz")

\* The fragment m/z values of window b (0-based) of frs.
WindowMzs(frs, b) ==
  {frs[i].fragment_mz : i \in {j \in 1..Len(frs) : (j - 1) \div FRAGMENT_BUCKET_SIZE = b}}

\* C7: bucket minimum: min_value has one entry per bucket; entry b is the
\* least fragment m/z of window b right after the global sort, and of bucket
\* b in the final layout; min_value is non-decreasing.
C7_BucketMinimum ==
  pc = "ready" =>
    LET sorted == globally_sorted(peptides, fragment_min_mz, fragment_max_mz)
        n == Len(min_value)
    IN  /\ n * FRAGMENT_BUCKET_SIZE >= Len(fragments)
        /\ (n = 0 \/ (n - 1) * FRAGMENT_BUCKET_SIZE < Len(fragments))
        /\ \A b \in 0..(n - 1) :
             /\ min_value[b + 1] = MinOf(WindowMzs(sorted, b))
             /\ min_value[b + 1] = MinOf(WindowMzs(fragments, b))
        /\ IsSorted(min_value)

\* A constructed database with a bucket whose first record, after the
\* resort by precursor mass, no longer carries the bucket's least m/z.
C7_Witness ==
  /\ pc = "ready"
  /\ Len(min_value) >= 2
  /\ \E b \in 0..(Len(min_value) - 1) :
       fragments[chunk_start(b) + 1].fragment_mz # min_value[b + 1]

C9_Conversion ==
  Called =>
    /\ out.left_idx = out.left_bucket * FRAGMENT_BUCKET_SIZE
    /\ out.right_idx = Min((out.right_bucket + 1) * FRAGMENT_BUCKET_SIZE, Len(fragments))

\* The records of window b (0-based) of frs, in order.
Window(frs, b) ==
  SubSeq(frs, b * FRAGMENT_BUCKET_SIZE + 1, Min((b + 1) * FRAGMENT_BUCKET_SIZE, Len(frs)))

\* C10: the per-bucket stage is interleaving-independent: whatever the order
\* of the workers' steps, a window no worker has sorted yet is untouched, a
\* window always holds the records it held after the global sort, each
\* worker's captured minimum is its own window's first m/z of that order, and
\* the final fragments and min_value are those of handling the buckets one
\* after the other.
C10_InterleavingIndependent ==
  pc \in {"chunking", "ready"} =>
    LET sorted == globally_sorted(peptides, fragment_min_mz, fragment_max_mz)
        n == Len(chunk_pc)
    IN  /\ Len(fragments) = Len(sorted)
        /\ n * FRAGMENT_BUCKET_SIZE >= Len(sorted)
        /\ \A b \in 0..(n - 1) :
             /\ SameRecords(Window(fragments, b), Window(sorted, b))
             /\ chunk_pc[b + 1] # "sorted" => Window(fragments, b) = Window(sorted, b)
             /\ chunk_pc[b + 1] # "start" => chunk_min[b + 1] = Window(sorted, b)[1].fragment_mz
        /\ pc = "ready" =>
             /\ fragments = sort_chunks(sorted, 0)
             /\ min_value = [b \in 1..n |-> Window(sorted, b - 1)[1].fragment_mz]

\* A later bucket's worker has resorted its window, changing it, while the
\* first bucket's worker has not started.
C10_Witness ==
  /\ pc = "chunking"
  /\ Len(chunk_pc) >= 2
  /\ chunk_pc[1] = "start"
  /\ \E b \in 1..(Len(chunk_pc) - 1) :
       /\ chunk_pc[b + 1] = "sorted"
       /\ Window(fragments, b) #
            Window(globally_sorted(peptides, fragment_min_mz, fragment_max_mz), b)

====
